---- MODULE Spec2Model ----
(***************************************************************************)
(* Shared file tree: the drag-and-drop move engine of the viewer           *)
(* (frontend/src/App.tsx, frontend/src/hooks/useFileSystem.ts) and the     *)
(* socket server that persists and fans out whole collections              *)
(* (backend/src/index.ts).                                                 *)
(*                                                                         *)
(* A node is a record [id, type, title, parentId, isOpen].  Ids are        *)
(* positive integers, Null stands for a null parentId, and isOpen is one   *)
(* of "true", "false", "undefined" (the field is optional in Item).        *)
(***************************************************************************)
EXTENDS Integers, Sequences, FiniteSets, TLC

\* Largest valid collection the move engine is exercised on.
MaxNodes == 3

\* Largest valid collection of the runs that need a folder with a
\* grandchild and a node outside its subtree.
MaxDeepNodes == 4

\* Largest collection of the unrestricted (possibly invalid) input domain.
MaxAnyNodes == 3

\* Largest collection a viewer holds, and largest collection a broadcast
\* brings it, in the runs that take one step of a viewer from every
\* collection it can hold.
MaxViewerNodes == 3
MaxIncomingNodes == 1

\* Connections the server sees, and updateItems events they emit, in the
\* runs where requests race.
MaxConns == 3
MaxUpdates == 2

\* The same for the runs that follow a single request at a time.
MaxConnsOne == 2
MaxUpdatesOne == 1
MaxConnsTwice == 1
MaxLocalNodes == 2
MaxPayloadNodes == 2
MaxSends == 1
MaxNameLen == 2
MaxUpdatesTwice == 2
MaxConnsSync == 2
MaxUpdatesSync == 2

\* parentId: string | null -- the null parent of a root node.
Null == 0

Undefined == "undefined"

Positions == {"before", "after", "inside"}

(***************************************************************************)
(* Array helpers, as the JavaScript built-ins compute them.                *)
(***************************************************************************)

\* Array.prototype.findIndex on id, 1-based; 0 where JavaScript gives -1.
findIndex(arr, id) ==
  IF \E i \in 1..Len(arr) : arr[i].id = id
  THEN CHOOSE i \in 1..Len(arr) :
         arr[i].id = id /\ \A j \in 1..(i - 1) : arr[j].id # id
  ELSE 0

\* arr.find(i => i.id === id)?.parentId, with a missing node read as Null.
parentIdOf(arr, id) ==
  IF findIndex(arr, id) = 0 THEN Null ELSE arr[findIndex(arr, id)].parentId

\* arr.slice(from0, to0) with JavaScript's 0-based, end-exclusive indices.
slice(arr, from0, to0) == SubSeq(arr, from0 + 1, to0)

Ids(arr) == {arr[i].id : i \in 1..Len(arr)}

(***************************************************************************)
(* DraggableItem.canDrop: the walk up the target's ancestor chain.         *)
(***************************************************************************)

\* The while loop of canDrop.  "hit" when draggedId is met, "clear" when the
\* chain ends, "hang" when the chain is a cycle that never meets draggedId
\* (the loop then never returns).
RECURSIVE ancestorWalk(_, _, _, _)
ancestorWalk(items, currentParent, draggedId, fuel) ==
  IF currentParent = Null THEN "clear"
  ELSE IF currentParent = draggedId THEN "hit"
  ELSE IF fuel = 0 THEN "hang"
  ELSE ancestorWalk(items, parentIdOf(items, currentParent), draggedId, fuel - 1)

canDropHangs(items, draggedItem, item) ==
  /\ draggedItem.id # item.id
  /\ draggedItem.type = "folder"
  /\ ancestorWalk(items, item.parentId, draggedItem.id, Len(items)) = "hang"

canDrop_NoDescendantCheck(items, draggedItem, item) ==
  draggedItem.id # item.id

canDrop(items, draggedItem, item) ==
  IF draggedItem.id = item.id THEN FALSE
  ELSE IF draggedItem.type = "folder"
       THEN ancestorWalk(items, item.parentId, draggedItem.id, Len(items)) # "hit"
       ELSE TRUE

(***************************************************************************)
(* DraggableItem.drop: which onMove call a drop on `item` makes.           *)
(* highlightedFolder is [folderId, position]; position Null when unset.    *)
(***************************************************************************)

NoHighlight == [folderId |-> Null, position |-> "none"]

dropPosition(highlightedFolder, item) ==
  IF /\ item.type = "folder"
     /\ highlightedFolder.folderId = item.id
     /\ highlightedFolder.position = "inside"
  THEN "inside"
  ELSE IF highlightedFolder.position = "none" THEN "after"
       ELSE highlightedFolder.position

\* react-dnd calls drop only where canDrop answered true; drop itself
\* returns early when the item is dropped on itself.
dropCallsMove_NoSelfCheck(items, draggedItem, item) ==
  \/ draggedItem.type # "folder"
  \/ ancestorWalk(items, item.parentId, draggedItem.id, Len(items)) # "hit"

dropCallsMove(items, draggedItem, item) ==
  /\ canDrop(items, draggedItem, item)
  /\ draggedItem.id # item.id

(***************************************************************************)
(* App.handleMove.                                                          *)
(***************************************************************************)

\* The filter callback answers truthy exactly for the items whose parentId
\* is parentId (an array is truthy), so the result is the direct children.
getAllDescendants(workingItems, parentId) ==
  SelectSeq(workingItems, LAMBDA item : item.parentId = parentId)

\* The recursive calls getAllDescendants makes (one per folder child) never
\* end when a folder below parentId lies on a parent cycle: RangeError.
RECURSIVE getAllDescendantsOverflows(_, _, _)
getAllDescendantsOverflows(workingItems, parentId, fuel) ==
  IF fuel = 0 THEN TRUE
  ELSE \E i \in 1..Len(workingItems) :
         /\ workingItems[i].parentId = parentId
         /\ workingItems[i].type = "folder"
         /\ getAllDescendantsOverflows(workingItems, workingItems[i].id, fuel - 1)

itemsToMoveOf(workingItems, draggedItem) ==
  IF draggedItem.type = "folder"
  THEN <<draggedItem>> \o getAllDescendants(workingItems, draggedItem.id)
  ELSE <<draggedItem>>

remainingItemsOf_OnlyDragged(workingItems, itemsToMove) ==
  SelectSeq(workingItems, LAMBDA item : item.id # itemsToMove[1].id)

remainingItemsOf(workingItems, itemsToMove) ==
  SelectSeq(workingItems, LAMBDA item : item.id \notin Ids(itemsToMove))

newParentId_AlwaysTarget(remainingItems, targetId, position) == targetId

newParentId(remainingItems, targetId, position) ==
  IF position = "inside" THEN targetId
  ELSE IF targetId # Null THEN parentIdOf(remainingItems, targetId)
       ELSE Null

updatedItemsToMoveOf(itemsToMove, remainingItems, draggedId, targetId, position) ==
  [i \in 1..Len(itemsToMove) |->
     IF itemsToMove[i].id = draggedId
     THEN [itemsToMove[i] EXCEPT
             !.parentId = newParentId(remainingItems, targetId, position)]
     ELSE itemsToMove[i]]

insertIndexOf_NeverAfter(remainingItems, targetId, position) ==
  IF targetId # Null /\ findIndex(remainingItems, targetId) # 0
  THEN findIndex(remainingItems, targetId) - 1
  ELSE Len(remainingItems)

\* 0-based insertion index into remainingItems.
insertIndexOf(remainingItems, targetId, position) ==
  IF targetId # Null /\ findIndex(remainingItems, targetId) # 0
  THEN IF position = "after"
       THEN findIndex(remainingItems, targetId)
       ELSE findIndex(remainingItems, targetId) - 1
  ELSE Len(remainingItems)

\* What handleMove does: "return" (dragged item not found), "RangeError"
\* (getAllDescendants overflows the stack) or "setItems" with finalItems.
handleMove(items, draggedId, targetId, position) ==
  IF findIndex(items, draggedId) = 0 THEN [kind |-> "return", items |-> items]
  ELSE
    LET draggedItem == items[findIndex(items, draggedId)]
    IN IF /\ draggedItem.type = "folder"
          /\ getAllDescendantsOverflows(items, draggedItem.id, Len(items) + 1)
       THEN [kind |-> "RangeError", items |-> items]
       ELSE
         LET itemsToMove == itemsToMoveOf(items, draggedItem)
             remainingItems == remainingItemsOf(items, itemsToMove)
             updatedItemsToMove ==
               updatedItemsToMoveOf(itemsToMove, remainingItems,
                                    draggedId, targetId, position)
             insertIndex == insertIndexOf(remainingItems, targetId, position)
         IN [kind |-> "setItems",
             items |-> slice(remainingItems, 0, insertIndex)
                       \o updatedItemsToMove
                       \o slice(remainingItems, insertIndex, Len(remainingItems))]

(***************************************************************************)
(* useFileSystem.updateItems (the setItems handed to App).                 *)
(***************************************************************************)

\* Every folder gets an isOpen value, defaulting to true.
itemsWithFolderState_AsGiven(newItems) == newItems

itemsWithFolderState(newItems) ==
  [i \in 1..Len(newItems) |->
     IF newItems[i].type = "folder" /\ newItems[i].isOpen = Undefined
     THEN [newItems[i] EXCEPT !.isOpen = "true"]
     ELSE newItems[i]]

\* The values of the hook's error state that the model tells apart.
NoError == "null"
CannotSave == "Cannot save changes - disconnected from server"

\* updateItems without the socket?.connected test.
updateItems_AlwaysSends(newItems, socketConnected) ==
  [saved |-> TRUE, items |-> itemsWithFolderState(newItems)]

\* updateItems: nothing is installed or sent while the socket is down,
\* and the error is set.
updateItems(newItems, socketConnected) ==
  IF socketConnected
  THEN [saved |-> TRUE, items |-> itemsWithFolderState(newItems)]
  ELSE [saved |-> FALSE, items |-> newItems, error |-> CannotSave]

\* App's const isOpen = item.isOpen ?? true: what the row shows.
shownOpen(isOpen) == IF isOpen = Undefined THEN "true" ELSE isOpen

\* JavaScript's !item.isOpen on an optional boolean.
notIsOpen(isOpen) == IF isOpen = "true" THEN "false" ELSE "true"

\* useFileSystem.toggleFolder: the items it hands to the state setter.
toggleFolder(items, folderId) ==
  [i \in 1..Len(items) |->
     IF items[i].id = folderId /\ items[i].type = "folder"
     THEN [items[i] EXCEPT !.isOpen = notIsOpen(@)]
     ELSE items[i]]

\* The itemsUpdated handler as it was before the merge was added: the
\* incoming items replace the local ones.
onItemsUpdated_TakeIncoming(items, updatedItems) == updatedItems

\* The itemsUpdated handler: the incoming items, a folder known locally
\* taking the local isOpen where the incoming one has none.
onItemsUpdated(items, updatedItems) ==
  [i \in 1..Len(updatedItems) |->
     LET updatedItem == updatedItems[i]
         k == findIndex(items, updatedItem.id)
     IN IF k # 0 /\ items[k].type = "folder" /\ updatedItem.isOpen = Undefined
        THEN [updatedItem EXCEPT !.isOpen = items[k].isOpen]
        ELSE updatedItem]

\* String.prototype.trim on a name, a sequence of characters of which " "
\* is the white space.
RECURSIVE trimStart(_)
trimStart(name) ==
  IF name # <<>> /\ Head(name) = " " THEN trimStart(Tail(name)) ELSE name

RECURSIVE trimEnd(_)
trimEnd(name) ==
  IF name # <<>> /\ name[Len(name)] = " "
  THEN trimEnd(SubSeq(name, 1, Len(name) - 1))
  ELSE name

trim(name) == trimEnd(trimStart(name))

\* createNewItem putting the new node first.
createNewItem_AtFront(items, type, id, title) ==
  <<[id |-> id, type |-> type, title |-> title, parentId |-> Null,
     isOpen |-> IF type = "folder" THEN "true" ELSE Undefined]>> \o items

\* App.createNewItem for a non-blank title: the items handed to setItems.
\* The id is generated (time and random), title stands for the trimmed name.
createNewItem(items, type, id, title) ==
  Append(items, [id |-> id, type |-> type, title |-> title, parentId |-> Null,
                 isOpen |-> IF type = "folder" THEN "true" ELSE Undefined])

\* The rows App renders: the roots, and recursively the children of every
\* rendered folder that is open (isOpen ?? true).
RECURSIVE RenderedUpTo(_, _, _)
RenderedUpTo(items, id, fuel) ==
  /\ findIndex(items, id) # 0
  /\ \/ items[findIndex(items, id)].parentId = Null
     \/ /\ fuel > 0
        /\ LET parentId == items[findIndex(items, id)].parentId
               k == findIndex(items, parentId)
           IN /\ k # 0
              /\ items[k].type = "folder"
              /\ items[k].isOpen # "false"
              /\ RenderedUpTo(items, parentId, fuel - 1)

Rendered(items, id) == RenderedUpTo(items, id, Len(items))

(***************************************************************************)
(* State of one viewer.                                                    *)
(***************************************************************************)
VARIABLES
  items,      \* useFileSystem: the viewer's local collection
  connected,  \* socket.connected
  error,      \* useFileSystem: the error state
  outbox,     \* updateItems payloads the viewer has emitted
  before,     \* history: the collection when the gesture started
  lastMove    \* history: the last drop, [draggedId, targetId, position, outcome]

viewerVars == <<items, connected, error, outbox, before, lastMove>>

(***************************************************************************)
(* State of the server (backend/src/index.ts) and of its store.            *)
(***************************************************************************)
VARIABLES
  docs,              \* the FileSystem documents of the store, each an items array
  connectedClients,  \* let connectedClients
  sock,              \* per connection: "absent", "none", "open" or "closed"
  handler,           \* per connection: where its io.on('connection') callback is
  snapshot,          \* per connection: what its FileSystem.findOne() returned
  toServer,          \* per connection: updateItems events in flight to the server
  sent,              \* per connection: the events the server has emitted to it
  reqs,              \* the updateItems handler invocations, in order of arrival
  updatesLeft        \* updateItems events the viewers have yet to emit

serverVars == <<docs, connectedClients, sock, handler, snapshot, toServer,
                sent, reqs, updatesLeft>>

(***************************************************************************)
(* State of the viewers behind the connections, as far as the server's     *)
(* messages shape it.  The specifications of one viewer describe that      *)
(* viewer by the variables above and leave these as they start.            *)
(***************************************************************************)
VARIABLES
  local,   \* per connection: the items state of the viewer behind it
  seen,    \* per connection: how many of the events sent to it have arrived
  loaded   \* per connection: whether its GET /api/filesystem has been answered

clientVars == <<local, seen, loaded>>

vars == <<items, connected, error, outbox, before, lastMove,
          docs, connectedClients, sock, handler, snapshot, toServer,
          sent, reqs, updatesLeft, local, seen, loaded>>

NoMove == [draggedId |-> Null, targetId |-> Null, position |-> "none",
           outcome |-> "none"]

(***************************************************************************)
(* Collections.                                                            *)
(***************************************************************************)

UniqueIds(c) == \A i, j \in 1..Len(c) : c[i].id = c[j].id => i = j

\* The ancestors of id in c: the ids met by following parentId upward.
RECURSIVE AncestorsUpTo(_, _, _)
AncestorsUpTo(c, id, n) ==
  IF n = 0 \/ parentIdOf(c, id) = Null THEN {}
  ELSE {parentIdOf(c, id)} \cup AncestorsUpTo(c, parentIdOf(c, id), n - 1)

Ancestors(c, id) == AncestorsUpTo(c, id, Len(c) + 1)

\* The strict descendants of id in c, at every depth.
Descendants(c, id) == {x \in Ids(c) : id \in Ancestors(c, x)}

Acyclic(c) == \A x \in Ids(c) : x \notin Ancestors(c, x)

ParentsAreFolders(c) ==
  \A i \in 1..Len(c) :
    c[i].parentId # Null =>
      \E j \in 1..Len(c) : c[j].id = c[i].parentId /\ c[j].type = "folder"

ExpandedWellFormed(c) ==
  \A i \in 1..Len(c) :
    IF c[i].type = "folder" THEN c[i].isOpen \in {"true", "false"}
    ELSE c[i].isOpen = Undefined

\* The data model's invariants on a collection.
ValidCollection(c) ==
  /\ UniqueIds(c)
  /\ ParentsAreFolders(c)
  /\ Acyclic(c)
  /\ ExpandedWellFormed(c)

Shapes == {"file", "open", "closed"}

mkNode(i, shape, parentId) ==
  [id |-> i, title |-> i, parentId |-> parentId,
   type |-> IF shape = "file" THEN "file" ELSE "folder",
   isOpen |-> IF shape = "file" THEN Undefined
              ELSE IF shape = "open" THEN "true" ELSE "false"]

\* Collections of k nodes whose i-th node has id i (ids are opaque, so
\* every collection with unique ids is one of these up to renaming);
\* parent ids range over 0..top.
CollectionsOfLen(k, top, shapes) ==
  {[i \in 1..k |-> mkNode(i, sh[i], pa[i])] :
     sh \in [1..k -> shapes], pa \in [1..k -> 0..top]}

ValidCollections(n) ==
  UNION {{c \in CollectionsOfLen(k, k, Shapes) : ValidCollection(c)} : k \in 1..n}

\* Every collection with unique ids, valid or not: parents may be files,
\* missing (id k + 1), the node itself, or lie on a cycle.  Folders are
\* all open here: isOpen has no part in which nodes a move carries.
AnyCollections ==
  UNION {CollectionsOfLen(k, k + 1, {"file", "open"}) : k \in 1..MaxAnyNodes}

(***************************************************************************)
(* A drop of the dragged node on a rendered item, as react-dnd runs it:    *)
(* canDrop, then drop, then handleMove, then updateItems.                  *)
(***************************************************************************)

\* The values the hover handler gives highlightedFolder: any zone of a
\* folder, the upper or lower half of a file, or nothing yet.
HighlightValues(c) ==
  {NoHighlight} \cup
  {[folderId |-> c[i].id, position |-> p] :
     i \in 1..Len(c), p \in {"before", "after"}} \cup
  {[folderId |-> c[i].id, position |-> "inside"] :
     i \in {j \in 1..Len(c) : c[j].type = "folder"}}

\* The positions a drop on item can pass to onMove, over every highlight.
DropPositions(c, item) == {dropPosition(h, item) : h \in HighlightValues(c)}

DropItem(draggedId, targetId, position) ==
  LET dragged == items[findIndex(items, draggedId)]
      draggedItem == [id |-> dragged.id, parentId |-> dragged.parentId,
                      type |-> dragged.type]
      item == items[findIndex(items, targetId)]
      moved == handleMove(items, draggedId, item.id, position)
      upd == updateItems(moved.items, connected)
      outcome ==
        IF canDropHangs(items, draggedItem, item) THEN "hang"
        ELSE IF ~dropCallsMove(items, draggedItem, item) THEN "rejected"
        ELSE IF moved.kind # "setItems" THEN moved.kind
        ELSE IF ~upd.saved THEN "notSaved"
        ELSE "moved"
  IN /\ lastMove.outcome = "none"
     /\ position \in DropPositions(items, item)
     /\ lastMove' = [draggedId |-> draggedId, targetId |-> targetId,
                     position |-> position, outcome |-> outcome]
     /\ IF lastMove'.outcome = "moved"
        THEN /\ items' = upd.items
             /\ outbox' = Append(outbox, items')
        ELSE UNCHANGED <<items, outbox>>
     /\ error' = IF lastMove'.outcome = "notSaved" THEN upd.error ELSE error
     /\ UNCHANGED <<connected, before>>
     /\ UNCHANGED <<serverVars, clientVars>>

Drop ==
  \E draggedId \in Ids(items), targetId \in Ids(items), position \in Positions :
    DropItem(draggedId, targetId, position)

\* handleMove called as the function it is, with a targetId that is null,
\* the id of a node, or an id no node has: handleMove, then updateItems.
MissingId(c) == Len(c) + 1

HandleMoveCall(draggedId, targetId, position) ==
  LET moved == handleMove(items, draggedId, targetId, position)
      upd == updateItems(moved.items, connected)
      outcome == IF moved.kind # "setItems" THEN moved.kind
                 ELSE IF ~upd.saved THEN "notSaved"
                 ELSE "moved"
  IN /\ lastMove.outcome = "none"
     /\ lastMove' = [draggedId |-> draggedId, targetId |-> targetId,
                     position |-> position, outcome |-> outcome]
     /\ IF outcome = "moved"
        THEN /\ items' = upd.items
             /\ outbox' = Append(outbox, items')
        ELSE UNCHANGED <<items, outbox>>
     /\ error' = IF lastMove'.outcome = "notSaved" THEN upd.error ELSE error
     /\ UNCHANGED <<connected, before>>
     /\ UNCHANGED <<serverVars, clientVars>>

(***************************************************************************)
(* The server: io.on('connection'), socket.on('updateItems'),              *)
(* socket.on('disconnect'), and the store behind FileSystem.               *)
(***************************************************************************)

Conns == 1..MaxConns

\* The collections viewers put in updateItems.  The server never looks
\* inside a payload, so three cover its behaviour: two valid collections
\* that differ, and one whose only node names a parent that does not exist.
PayloadA == <<mkNode(1, "file", Null)>>
PayloadB == <<mkNode(1, "open", Null), mkNode(2, "file", 1)>>
PayloadDangling == <<mkNode(1, "file", 2)>>
Payloads == {PayloadA, PayloadB, PayloadDangling}

\* What the store keeps of an items array: itemSchema gives isOpen the
\* default true, and Mongoose fills it in on every element cast without
\* one, files included.  (The store's own _id and timestamps are no part
\* of an Item and are left out.)
castItems_AsGiven(arr) == arr

castItems(arr) ==
  [i \in 1..Len(arr) |->
     [arr[i] EXCEPT !.isOpen = IF @ = Undefined THEN "true" ELSE @]]

\* fileSystem?.items || [] for the document findOne() returns.
findOneItems(d) == IF d = <<>> THEN <<>> ELSE d[1]

Msg(type, payload) == [type |-> type, items |-> payload]

\* socket.broadcast.emit: every socket of the namespace but the sender's.
broadcastRecipients_All(sender) == {c \in Conns : sock[c] = "open"}

\* A broadcast that is dropped when the sender's own socket has closed.
broadcastRecipients_OpenSender(sender) ==
  {c \in Conns : sock[c] = "open" /\ c # sender /\ sock[sender] = "open"}

broadcastRecipients(sender) == {c \in Conns : sock[c] = "open" /\ c # sender}

\* socket.emit: the sender alone, and nothing once its socket is closed.
errorRecipients_All(sender) == {c \in Conns : sock[c] = "open"}

errorRecipients(sender) == {c \in Conns : sock[c] = "open" /\ c = sender}

emitTo(recipients, msg) ==
  [c \in Conns |-> IF c \in recipients THEN Append(sent[c], msg) ELSE sent[c]]

\* The store outlives the server process: on start it is empty, or holds
\* the one document an earlier run left.
EmptyStore == {<<>>}

EmptyOrUsedStore == {<<>>, <<castItems(PayloadB)>>}

\* The server just started, viewers 1..nViewers yet to connect and nEmits
\* updateItems events yet to be emitted by them.
InitServerOf(nViewers, nEmits, stores) ==
  /\ docs \in stores
  /\ connectedClients = 0
  /\ sock = [c \in Conns |-> IF c <= nViewers THEN "none" ELSE "absent"]
  /\ handler = [c \in Conns |-> "none"]
  /\ snapshot = [c \in Conns |-> <<>>]
  /\ toServer = [c \in Conns |-> <<>>]
  /\ sent = [c \in Conns |-> <<>>]
  /\ reqs = <<>>
  /\ updatesLeft = nEmits
  /\ local = [c \in Conns |-> <<>>]
  /\ seen = [c \in Conns |-> 0]
  /\ loaded = [c \in Conns |-> FALSE]

InitServer == InitServerOf(MaxConns, MaxUpdates, EmptyStore)

\* A viewer's socket connects: the callback counts it and starts findOne().
\* Connections are interchangeable, so they are taken in order.
Connect(c) ==
  /\ sock[c] = "none"
  /\ \A d \in Conns : d < c => sock[d] # "none"
  /\ sock' = [sock EXCEPT ![c] = "open"]
  /\ connectedClients' = connectedClients + 1
  /\ handler' = [handler EXCEPT ![c] = "awaitFindOne"]
  /\ UNCHANGED <<docs, snapshot, toServer, sent, reqs, updatesLeft>>
  /\ UNCHANGED <<viewerVars, clientVars>>

\* The store answers the callback's findOne().
StoreFindOne(c) ==
  /\ handler[c] = "awaitFindOne"
  /\ snapshot' = [snapshot EXCEPT ![c] = findOneItems(docs)]
  /\ handler' = [handler EXCEPT ![c] = "gotSnapshot"]
  /\ UNCHANGED <<docs, connectedClients, sock, toServer, sent, reqs, updatesLeft>>
  /\ UNCHANGED <<viewerVars, clientVars>>

\* findOne() rejects: the async callback ends there, with no listener set.
StoreFindOneFails(c) ==
  /\ handler[c] = "awaitFindOne"
  /\ handler' = [handler EXCEPT ![c] = "rejected"]
  /\ UNCHANGED <<docs, connectedClients, sock, snapshot, toServer, sent, reqs,
                 updatesLeft>>
  /\ UNCHANGED <<viewerVars, clientVars>>

\* The callback resumes: emits initialData, then registers the updateItems
\* and disconnect listeners.
ConnectionResumes(c) ==
  /\ handler[c] = "gotSnapshot"
  /\ sent' = emitTo({d \in {c} : sock[d] = "open"}, Msg("initialData", snapshot[c]))
  /\ handler' = [handler EXCEPT ![c] = "registered"]
  /\ UNCHANGED <<docs, connectedClients, sock, snapshot, toServer, reqs, updatesLeft>>
  /\ UNCHANGED <<viewerVars, clientVars>>

\* The socket closes; the disconnect listener runs only if it is registered.
\* Events still in flight from the viewer are lost.
Disconnect(c) ==
  /\ sock[c] = "open"
  /\ sock' = [sock EXCEPT ![c] = "closed"]
  /\ connectedClients' = IF handler[c] = "registered"
                         THEN connectedClients - 1 ELSE connectedClients
  /\ toServer' = [toServer EXCEPT ![c] = <<>>]
  /\ UNCHANGED <<docs, handler, snapshot, sent, reqs, updatesLeft>>
  /\ UNCHANGED <<viewerVars, clientVars>>

\* A viewer whose socket is connected emits updateItems: the collection is
\* installed as its local state and sent.
ViewerEmits(c, payload) ==
  /\ sock[c] = "open"
  /\ updatesLeft > 0
  /\ updatesLeft' = updatesLeft - 1
  /\ toServer' = [toServer EXCEPT ![c] = Append(@, payload)]
  /\ local' = [local EXCEPT ![c] = payload]
  /\ UNCHANGED <<docs, connectedClients, sock, handler, snapshot, sent, reqs>>
  /\ UNCHANGED <<seen, loaded>>
  /\ UNCHANGED viewerVars

\* An updateItems event arrives.  With the listener registered the handler
\* starts and calls findOneAndUpdate; without, the event has no listener.
ServerReceives(c) ==
  /\ toServer[c] # <<>>
  /\ toServer' = [toServer EXCEPT ![c] = Tail(@)]
  /\ reqs' = IF handler[c] = "registered"
             THEN Append(reqs, [conn |-> c, items |-> Head(toServer[c]),
                                stage |-> "writing", stored |-> <<>>])
             ELSE reqs
  /\ UNCHANGED <<docs, connectedClients, sock, handler, snapshot, sent, updatesLeft>>
  /\ UNCHANGED <<viewerVars, clientVars>>

setStage(r, stage) == [reqs EXCEPT ![r].stage = stage]

\* The write of request r went through, leaving stored in the store.
setWritten(r, stored) ==
  [reqs EXCEPT ![r].stage = "written", ![r].stored = stored]

\* findOneAndUpdate({}, {items}, {upsert: true}) with a document to match:
\* the first document is overwritten whole.
StoreUpdates(r) ==
  /\ reqs[r].stage = "writing"
  /\ docs # <<>>
  /\ docs' = [docs EXCEPT ![1] = castItems(reqs[r].items)]
  /\ reqs' = setWritten(r, docs'[1])
  /\ UNCHANGED <<connectedClients, sock, handler, snapshot, toServer, sent, updatesLeft>>
  /\ UNCHANGED <<viewerVars, clientVars>>

\* The same on an empty store: the match finds nothing, and the upsert
\* then inserts.  The two steps are not atomic in the store.
StoreUpsertMisses(r) ==
  /\ reqs[r].stage = "writing"
  /\ docs = <<>>
  /\ reqs' = setStage(r, "inserting")
  /\ UNCHANGED <<docs, connectedClients, sock, handler, snapshot, toServer, sent,
                 updatesLeft>>
  /\ UNCHANGED <<viewerVars, clientVars>>

StoreInserts(r) ==
  /\ reqs[r].stage = "inserting"
  /\ docs' = Append(docs, castItems(reqs[r].items))
  /\ reqs' = setWritten(r, docs'[Len(docs')])
  /\ UNCHANGED <<connectedClients, sock, handler, snapshot, toServer, sent, updatesLeft>>
  /\ UNCHANGED <<viewerVars, clientVars>>

\* The write fails in the store: nothing is stored, the promise rejects.
StoreWriteFails(r) ==
  /\ reqs[r].stage \in {"writing", "inserting"}
  /\ reqs' = setStage(r, "failed")
  /\ UNCHANGED <<docs, connectedClients, sock, handler, snapshot, toServer, sent,
                 updatesLeft>>
  /\ UNCHANGED <<viewerVars, clientVars>>

\* The handler resumes after the await: socket.broadcast.emit('itemsUpdated').
HandlerResumes(r) ==
  /\ reqs[r].stage = "written"
  /\ sent' = emitTo(broadcastRecipients(reqs[r].conn),
                    Msg("itemsUpdated", reqs[r].items))
  /\ reqs' = setStage(r, "done")
  /\ UNCHANGED <<docs, connectedClients, sock, handler, snapshot, toServer, updatesLeft>>
  /\ UNCHANGED <<viewerVars, clientVars>>

\* The handler's catch: socket.emit('error', 'Failed to save changes').
HandlerCatches(r) ==
  /\ reqs[r].stage = "failed"
  /\ sent' = emitTo(errorRecipients(reqs[r].conn), Msg("error", <<>>))
  /\ reqs' = setStage(r, "errored")
  /\ UNCHANGED <<docs, connectedClients, sock, handler, snapshot, toServer, updatesLeft>>
  /\ UNCHANGED <<viewerVars, clientVars>>

InitViewerIdle ==
  /\ items = <<>>
  /\ connected = TRUE
  /\ error = NoError
  /\ outbox = <<>>
  /\ before = <<>>
  /\ lastMove = NoMove

InitSrv == InitServer /\ InitViewerIdle

NextServer ==
  \/ \E c \in Conns : Connect(c)
  \/ \E c \in Conns : StoreFindOne(c)
  \/ \E c \in Conns : StoreFindOneFails(c)
  \/ \E c \in Conns : ConnectionResumes(c)
  \/ \E c \in Conns : Disconnect(c)
  \/ \E c \in Conns, payload \in Payloads : ViewerEmits(c, payload)
  \/ \E c \in Conns : ServerReceives(c)
  \/ \E r \in 1..Len(reqs) : StoreUpdates(r)
  \/ \E r \in 1..Len(reqs) : StoreUpsertMisses(r)
  \/ \E r \in 1..Len(reqs) : StoreInserts(r)
  \/ \E r \in 1..Len(reqs) : StoreWriteFails(r)
  \/ \E r \in 1..Len(reqs) : HandlerResumes(r)
  \/ \E r \in 1..Len(reqs) : HandlerCatches(r)

SpecServer == InitSrv /\ [][NextServer]_vars

InitSrvOne ==
  InitServerOf(MaxConnsOne, MaxUpdatesOne, EmptyOrUsedStore) /\ InitViewerIdle

SpecServerOne == InitSrvOne /\ [][NextServer]_vars

\* The rejection of findOne() in the async connection callback is handled
\* nowhere.  Node (20 in the image the server is built from) ends the
\* process on an unhandled rejection unless started in another mode: every
\* socket closes, no viewer can connect, and the handlers under way never
\* resume.
ProcessExits ==
  /\ \E c \in Conns : handler[c] = "rejected"
  /\ sock' = [c \in Conns |-> IF sock[c] = "open" THEN "closed"
                               ELSE IF sock[c] = "none" THEN "absent"
                               ELSE sock[c]]
  /\ handler' = [c \in Conns |-> IF handler[c] \in {"none", "rejected"}
                                  THEN handler[c] ELSE "exited"]
  /\ reqs' = [r \in 1..Len(reqs) |->
                IF reqs[r].stage \in {"done", "errored"} THEN reqs[r]
                ELSE [reqs[r] EXCEPT !.stage = "aborted"]]
  /\ toServer' = [c \in Conns |-> <<>>]
  /\ connectedClients' = 0
  /\ updatesLeft' = 0
  /\ UNCHANGED <<docs, snapshot, sent>>
  /\ UNCHANGED <<viewerVars, clientVars>>

\* The server with the process-level outcome of an unhandled rejection:
\* the process exits, or (in the warning modes) goes on.
NextServerExit ==
  \/ NextServer
  \/ ProcessExits

SpecServerExit == InitSrvOne /\ [][NextServerExit]_vars

\* The viewer's GET /api/filesystem is answered with the collection the
\* store holds and the answer installed as the viewer's items.
ViewerLoads(c) ==
  /\ sock[c] # "absent"
  /\ ~loaded[c]
  /\ loaded' = [loaded EXCEPT ![c] = TRUE]
  /\ local' = [local EXCEPT ![c] = findOneItems(docs)]
  /\ UNCHANGED seen
  /\ UNCHANGED <<serverVars, viewerVars>>

\* The next event the server sent to c arrives at its viewer.  The hook
\* listens to itemsUpdated alone: initialData and error have no listener.
ViewerReceives(c) ==
  /\ seen[c] < Len(sent[c])
  /\ seen' = [seen EXCEPT ![c] = @ + 1]
  /\ local' = [local EXCEPT ![c] =
                 IF sent[c][seen[c] + 1].type = "itemsUpdated"
                 THEN onItemsUpdated(@, sent[c][seen[c] + 1].items)
                 ELSE @]
  /\ UNCHANGED loaded
  /\ UNCHANGED <<serverVars, viewerVars>>

\* The server and the viewers behind its connections.  App shows
\* "Loading..." until the load is answered, so a viewer emits only then.
NextServerSync ==
  \/ \E c \in Conns : Connect(c)
  \/ \E c \in Conns : StoreFindOne(c)
  \/ \E c \in Conns : StoreFindOneFails(c)
  \/ \E c \in Conns : ConnectionResumes(c)
  \/ \E c \in Conns : Disconnect(c)
  \/ \E c \in Conns, payload \in Payloads : loaded[c] /\ ViewerEmits(c, payload)
  \/ \E c \in Conns : ServerReceives(c)
  \/ \E r \in 1..Len(reqs) : StoreUpdates(r)
  \/ \E r \in 1..Len(reqs) : StoreUpsertMisses(r)
  \/ \E r \in 1..Len(reqs) : StoreInserts(r)
  \/ \E r \in 1..Len(reqs) : StoreWriteFails(r)
  \/ \E r \in 1..Len(reqs) : HandlerResumes(r)
  \/ \E r \in 1..Len(reqs) : HandlerCatches(r)
  \/ \E c \in Conns : ViewerLoads(c)
  \/ \E c \in Conns : ViewerReceives(c)

\* Two viewers and two updateItems events.
InitSrvSync ==
  InitServerOf(MaxConnsSync, MaxUpdatesSync, EmptyStore) /\ InitViewerIdle

SpecServerSync == InitSrvSync /\ [][NextServerSync]_vars

\* One viewer and two updateItems events, so that the same collection can
\* be submitted twice in succession.
InitSrvTwice ==
  InitServerOf(MaxConnsTwice, MaxUpdatesTwice, EmptyStore) /\ InitViewerIdle

SpecServerTwice == InitSrvTwice /\ [][NextServer]_vars

\* Payloads that are arrays but not well-formed collections: an element
\* whose type is neither file nor folder, and an element without a title.
PayloadBadKind == <<[id |-> 1, title |-> 1, parentId |-> Null, type |-> "link",
                    isOpen |-> Undefined]>>
PayloadNoTitle == <<[id |-> 1, parentId |-> Null, type |-> "file",
                    isOpen |-> Undefined]>>
ShapePayloads == {PayloadBadKind, PayloadNoTitle}

\* The server as in NextServer, the viewers' events carrying ShapePayloads.
NextServerShape ==
  \/ \E c \in Conns : Connect(c)
  \/ \E c \in Conns : StoreFindOne(c)
  \/ \E c \in Conns : StoreFindOneFails(c)
  \/ \E c \in Conns : ConnectionResumes(c)
  \/ \E c \in Conns : Disconnect(c)
  \/ \E c \in Conns, payload \in ShapePayloads : ViewerEmits(c, payload)
  \/ \E c \in Conns : ServerReceives(c)
  \/ \E r \in 1..Len(reqs) : StoreUpdates(r)
  \/ \E r \in 1..Len(reqs) : StoreUpsertMisses(r)
  \/ \E r \in 1..Len(reqs) : StoreInserts(r)
  \/ \E r \in 1..Len(reqs) : StoreWriteFails(r)
  \/ \E r \in 1..Len(reqs) : HandlerResumes(r)
  \/ \E r \in 1..Len(reqs) : HandlerCatches(r)

SpecServerShape == InitSrvOne /\ [][NextServerShape]_vars

InitMove ==
  /\ items \in ValidCollections(MaxNodes)
  /\ connected = TRUE
  /\ error = NoError
  /\ outbox = <<>>
  /\ before = items
  /\ lastMove = NoMove
  /\ InitServer

NextMove == Drop

SpecMove == InitMove /\ [][NextMove]_vars

NextHandleMove ==
  \E draggedId \in Ids(items) \cup {MissingId(items)},
     targetId \in Ids(items) \cup {Null, MissingId(items)},
     position \in Positions :
    HandleMoveCall(draggedId, targetId, position)

SpecHandleMove == InitMove /\ [][NextHandleMove]_vars

(***************************************************************************)
(* One step of a viewer: a drop on a rendered row, a creation, a toggle,   *)
(* or an itemsUpdated from the server.                                     *)
(***************************************************************************)

\* The collections a viewer can come to hold: ids are unique, every parent
\* is a node, no node is its own ancestor.  A parent may be a file: a drop
\* with the inside highlight of a folder still set puts a node under one.
HeldCollections(n) ==
  UNION {{c \in CollectionsOfLen(k, k, Shapes) : Acyclic(c)} : k \in 1..n}

\* A drop on a row that is on screen.  The dragged node was a row when the
\* drag began; by the time of the drop it need only be in items.
RowDrop(draggedId, targetId, position) ==
  /\ lastMove.outcome = "none"
  /\ Rendered(items, targetId)
  /\ DropItem(draggedId, targetId, position)

\* Add File / New Folder with a title typed in; the generated id is new.
Create(type) ==
  LET id == Len(items) + 1
      upd == updateItems(createNewItem(items, type, id, id), connected)
  IN /\ lastMove.outcome = "none"
     /\ lastMove' = [draggedId |-> id, targetId |-> Null, position |-> "none",
                     outcome |-> IF upd.saved THEN "created" ELSE "notSaved"]
     /\ IF upd.saved
        THEN /\ items' = upd.items
             /\ outbox' = Append(outbox, items')
        ELSE UNCHANGED <<items, outbox>>
     /\ error' = IF lastMove'.outcome = "notSaved" THEN upd.error ELSE error
     /\ UNCHANGED <<connected, before>>
     /\ UNCHANGED <<serverVars, clientVars>>

\* A click on the chevron of a folder row: toggleFolder hands its result
\* to the state setter; nothing is emitted.
Toggle(folderId) ==
  /\ lastMove.outcome = "none"
  /\ Rendered(items, folderId)
  /\ items[findIndex(items, folderId)].type = "folder"
  /\ lastMove' = [draggedId |-> folderId, targetId |-> Null,
                  position |-> "none", outcome |-> "toggled"]
  /\ items' = toggleFolder(items, folderId)
  /\ UNCHANGED <<connected, error, outbox, before>>
  /\ UNCHANGED <<serverVars, clientVars>>

\* An itemsUpdated arrives, carrying a collection another viewer holds.
Receive(updatedItems) ==
  /\ lastMove.outcome = "none"
  /\ lastMove' = [draggedId |-> Null, targetId |-> Null,
                  position |-> "none", outcome |-> "received"]
  /\ items' = onItemsUpdated(items, updatedItems)
  /\ UNCHANGED <<connected, error, outbox, before>>
  /\ UNCHANGED <<serverVars, clientVars>>

InitViewerStep ==
  /\ items \in HeldCollections(MaxViewerNodes)
  /\ connected = TRUE
  /\ error = NoError
  /\ outbox = <<>>
  /\ before = items
  /\ lastMove = NoMove
  /\ InitServer

NextViewerStep ==
  \/ \E draggedId \in Ids(items), targetId \in Ids(items), position \in Positions :
       RowDrop(draggedId, targetId, position)
  \/ \E type \in {"file", "folder"} : Create(type)
  \/ \E folderId \in Ids(items) : Toggle(folderId)
  \/ \E updatedItems \in HeldCollections(MaxIncomingNodes) : Receive(updatedItems)

SpecViewerStep == InitViewerStep /\ [][NextViewerStep]_vars

\* A viewer toggles a folder of the collection it shares with a peer;
\* the peer, still holding that collection (before: a toggle is not
\* sent), drops draggedId on the row targetId; the move is accepted and the
\* peer's updateItems emits the result, which the server passes on
\* untouched as itemsUpdated and the viewer's handler merges.
ReceivePeerMove(draggedId, targetId, position) ==
  LET dragged == before[findIndex(before, draggedId)]
      draggedItem == [id |-> dragged.id, parentId |-> dragged.parentId,
                      type |-> dragged.type]
      item == before[findIndex(before, targetId)]
      moved == handleMove(before, draggedId, item.id, position)
      upd == updateItems(moved.items, TRUE)
  IN /\ lastMove.outcome = "toggled"
     /\ Rendered(before, targetId)
     /\ position \in DropPositions(before, item)
     /\ ~canDropHangs(before, draggedItem, item)
     /\ dropCallsMove(before, draggedItem, item)
     /\ moved.kind = "setItems"
     /\ lastMove' = [draggedId |-> draggedId, targetId |-> targetId,
                     position |-> position, outcome |-> "received"]
     /\ items' = onItemsUpdated(items, upd.items)
     /\ UNCHANGED <<connected, error, outbox, before>>
     /\ UNCHANGED <<serverVars, clientVars>>

NextToggleReceive ==
  \/ \E folderId \in Ids(items) : Toggle(folderId)
  \/ \E draggedId \in Ids(before), targetId \in Ids(before), position \in Positions :
       ReceivePeerMove(draggedId, targetId, position)

SpecToggleReceive == InitMove /\ [][NextToggleReceive]_vars

\* The nodes an itemsUpdated can carry: a folder with or without an
\* isOpen (a sender other than this viewer's updateItems need not set one).
PayloadShapes == {"file", "open", "closed", "bare"}

payloadNode(i, shape) ==
  [id |-> i, title |-> i, parentId |-> Null,
   type |-> IF shape = "file" THEN "file" ELSE "folder",
   isOpen |-> IF shape = "open" THEN "true"
              ELSE IF shape = "closed" THEN "false" ELSE Undefined]

\* Payloads of up to n nodes, in any order, with ids the viewer knows and
\* one it does not (n + 1).
IncomingPayloads(n) ==
  UNION {{[i \in 1..k |-> payloadNode(ids[i], sh[i])] :
            sh \in [1..k -> PayloadShapes],
            ids \in {f \in [1..k -> 1..(n + 1)] :
                       \A i, j \in 1..k : i # j => f[i] # f[j]}} :
         k \in 1..n}

\* Viewer 1 holds a collection; viewer 2's updateItems has been written
\* and its itemsUpdated sent to viewer 1, whose handler has yet to run.
InitReceive ==
  /\ items \in ValidCollections(MaxLocalNodes)
  /\ connected = TRUE
  /\ error = NoError
  /\ outbox = <<>>
  /\ before = items
  /\ lastMove = NoMove
  /\ \E u \in IncomingPayloads(MaxPayloadNodes) :
       /\ docs = <<castItems(u)>>
       /\ sent = [c \in Conns |-> IF c = 1 THEN <<Msg("itemsUpdated", u)>>
                                   ELSE <<>>]
       /\ reqs = <<[conn |-> 2, items |-> u, stage |-> "done",
                    stored |-> castItems(u)]>>
  /\ connectedClients = 2
  /\ sock = [c \in Conns |-> IF c <= 2 THEN "open" ELSE "absent"]
  /\ handler = [c \in Conns |-> IF c <= 2 THEN "registered" ELSE "none"]
  /\ snapshot = [c \in Conns |-> <<>>]
  /\ toServer = [c \in Conns |-> <<>>]
  /\ updatesLeft = 0
  /\ local = [c \in Conns |-> <<>>]
  /\ seen = [c \in Conns |-> 0]
  /\ loaded = [c \in Conns |-> FALSE]

\* The itemsUpdated sent to viewer 1 arrives and its handler runs.
ReceiveSent ==
  /\ sent[1] # <<>>
  /\ Receive(sent[1][1].items)

NextReceive == ReceiveSent

SpecReceive == InitReceive /\ [][NextReceive]_vars

\* newSocket.on('connect'): the socket is up and the error is cleared.
\* No gesture is under way.
SocketConnects ==
  /\ ~connected
  /\ connected' = TRUE
  /\ error' = NoError
  /\ lastMove' = NoMove
  /\ before' = items
  /\ UNCHANGED <<items, outbox>>
  /\ UNCHANGED <<serverVars, clientVars>>

\* newSocket.on('disconnect'): the socket is down; the error stays.
SocketDisconnects ==
  /\ connected
  /\ connected' = FALSE
  /\ lastMove' = NoMove
  /\ before' = items
  /\ UNCHANGED <<items, error, outbox>>
  /\ UNCHANGED <<serverVars, clientVars>>

\* A viewer whose socket may be up or down and comes and goes.
InitOffline ==
  /\ items \in ValidCollections(MaxLocalNodes)
  /\ connected \in BOOLEAN
  /\ error = NoError
  /\ outbox = <<>>
  /\ before = items
  /\ lastMove = NoMove
  /\ InitServer

\* Drops and creations until MaxSends collections have been emitted, the
\* socket going down and coming up in between.
NextOffline ==
  \/ Len(outbox) < MaxSends /\ Drop
  \/ Len(outbox) < MaxSends /\ \E type \in {"file", "folder"} : Create(type)
  \/ SocketConnects
  \/ SocketDisconnects

SpecOffline == InitOffline /\ [][NextOffline]_vars

\* toggleFolder called as the function it is, with the id of a folder, of
\* a file, or of no node.
ToggleFolderCall(folderId) ==
  /\ lastMove.outcome = "none"
  /\ lastMove' = [draggedId |-> folderId, targetId |-> Null,
                  position |-> "none", outcome |-> "toggled"]
  /\ items' = toggleFolder(items, folderId)
  /\ UNCHANGED <<connected, error, outbox, before>>
  /\ UNCHANGED <<serverVars, clientVars>>

\* A viewer holding what an itemsUpdated left it: folders with or without
\* an isOpen.
InitToggle ==
  /\ items \in IncomingPayloads(MaxPayloadNodes)
  /\ connected = TRUE
  /\ error = NoError
  /\ outbox = <<>>
  /\ before = items
  /\ lastMove = NoMove
  /\ InitServer

NextToggle == \E folderId \in 1..(MaxPayloadNodes + 1) : ToggleFolderCall(folderId)

SpecToggle == InitToggle /\ [][NextToggle]_vars

\* What can be typed into the name field.
Names == UNION {[1..k -> {" ", "a"}] : k \in 0..MaxNameLen}

\* An id no node of c has, as the generated one (time and random) is.
FreshId(c) == (CHOOSE m \in Ids(c) \cup {0} : \A x \in Ids(c) : x <= m) + 1

\* Add File / New Folder with newItemName in the name field: nothing for a
\* blank name, else createNewItem's setItems, which is updateItems.
CreateNamed(type, newItemName) ==
  LET id == FreshId(items)
      upd == updateItems(createNewItem(items, type, id, trim(newItemName)),
                         connected)
      outcome == IF trim(newItemName) = <<>> THEN "blank"
                 ELSE IF upd.saved THEN "created" ELSE "notSaved"
  IN /\ lastMove.outcome = "none"
     /\ lastMove' = [draggedId |-> id, targetId |-> Null, position |-> "none",
                     outcome |-> outcome, type |-> type, name |-> newItemName]
     /\ IF outcome = "created"
        THEN /\ items' = upd.items
             /\ outbox' = Append(outbox, items')
        ELSE UNCHANGED <<items, outbox>>
     /\ error' = IF outcome = "notSaved" THEN upd.error ELSE error
     /\ UNCHANGED <<connected, before>>
     /\ UNCHANGED <<serverVars, clientVars>>

\* A viewer with the socket up or down, holding nothing, a valid
\* collection, or what an itemsUpdated left it.
InitCreate ==
  /\ items \in {<<>>} \cup ValidCollections(MaxLocalNodes)
                \cup IncomingPayloads(MaxPayloadNodes)
  /\ connected \in BOOLEAN
  /\ error = NoError
  /\ outbox = <<>>
  /\ before = items
  /\ lastMove = NoMove
  /\ InitServer

NextCreate ==
  \E type \in {"file", "folder"}, newItemName \in Names :
    CreateNamed(type, newItemName)

SpecCreate == InitCreate /\ [][NextCreate]_vars

\* The hook's setItems, which is updateItems, called with an array whose
\* folders may or may not carry an isOpen.
SetItems(newItems) ==
  LET upd == updateItems(newItems, connected)
  IN /\ lastMove.outcome = "none"
     /\ lastMove' = [draggedId |-> Null, targetId |-> Null, position |-> "none",
                     outcome |-> IF upd.saved THEN "set" ELSE "notSaved",
                     given |-> newItems]
     /\ IF upd.saved
        THEN /\ items' = upd.items
             /\ outbox' = Append(outbox, upd.items)
        ELSE UNCHANGED <<items, outbox>>
     /\ error' = IF upd.saved THEN error ELSE upd.error
     /\ UNCHANGED <<connected, before>>
     /\ UNCHANGED <<serverVars, clientVars>>

\* What the viewer holds has no part in updateItems: nothing, or one of two
\* collections.
InitSetItems ==
  /\ items \in {<<>>, PayloadA, PayloadB}
  /\ connected \in BOOLEAN
  /\ error = NoError
  /\ outbox = <<>>
  /\ before = items
  /\ lastMove = NoMove
  /\ InitServer

NextSetItems == \E newItems \in IncomingPayloads(MaxPayloadNodes) : SetItems(newItems)

SpecSetItems == InitSetItems /\ [][NextSetItems]_vars

InitMoveAny ==
  /\ items \in AnyCollections
  /\ connected = TRUE
  /\ error = NoError
  /\ outbox = <<>>
  /\ before = items
  /\ lastMove = NoMove
  /\ InitServer

SpecMoveAny == InitMoveAny /\ [][NextMove]_vars

InitMoveDeep ==
  /\ items \in ValidCollections(MaxDeepNodes)
  /\ connected = TRUE
  /\ error = NoError
  /\ outbox = <<>>
  /\ before = items
  /\ lastMove = NoMove
  /\ InitServer

SpecMoveDeep == InitMoveDeep /\ [][NextMove]_vars

(***************************************************************************)
(* Properties of the move engine.                                          *)
(***************************************************************************)

DraggedBefore == before[findIndex(before, lastMove.draggedId)]

\* C1: in a valid collection, a drop of a folder on any of its strict
\* descendants (at any depth, for every position) is rejected: no move is
\* made, the collection is unchanged and nothing is emitted.
C1_DescendantDropRejected ==
  (/\ lastMove.outcome # "none"
   /\ ValidCollection(before)
   /\ lastMove.targetId \in Descendants(before, lastMove.draggedId))
  => /\ lastMove.outcome = "rejected"
     /\ items = before
     /\ outbox = <<>>

\* A folder dropped "inside" a grandchild (or deeper) was rejected.
C1_Witness ==
  /\ lastMove.outcome = "rejected"
  /\ lastMove.position = "inside"
  /\ lastMove.targetId \in Descendants(before, lastMove.draggedId)
  /\ parentIdOf(before, lastMove.targetId) # lastMove.draggedId
  /\ items = before

\* C2: in a valid collection, a drop of a node on itself is rejected for
\* every position, and the collection is unchanged.
C2_SelfDropRejected ==
  (/\ lastMove.outcome # "none"
   /\ ValidCollection(before)
   /\ lastMove.targetId = lastMove.draggedId)
  => /\ lastMove.outcome = "rejected"
     /\ items = before
     /\ outbox = <<>>

\* A folder that has a child was dropped "inside" itself and rejected.
C2_Witness ==
  /\ lastMove.outcome = "rejected"
  /\ lastMove.targetId = lastMove.draggedId
  /\ lastMove.position = "inside"
  /\ Descendants(before, lastMove.draggedId) # {}
  /\ items = before

\* C8: after a folder is moved, it is immediately followed by all of its
\* transitive descendants, as one contiguous block.
C8_SubtreeMovesAsBlock ==
  (/\ lastMove.outcome = "moved"
   /\ ValidCollection(before)
   /\ DraggedBefore.type = "folder")
  => LET D == Descendants(before, lastMove.draggedId)
         p == findIndex(items, lastMove.draggedId)
     IN /\ p + Cardinality(D) <= Len(items)
        /\ {items[i].id : i \in (p + 1)..(p + Cardinality(D))} = D

\* C9: after a folder is moved, each of its descendants has the expanded
\* value it had, and any two descendants are in the order they were in.
C9_DescendantsKeepOrderAndExpanded ==
  (/\ lastMove.outcome = "moved"
   /\ ValidCollection(before)
   /\ DraggedBefore.type = "folder")
  => \A x, y \in Descendants(before, lastMove.draggedId) :
       /\ items[findIndex(items, x)].isOpen = before[findIndex(before, x)].isOpen
       /\ findIndex(before, x) < findIndex(before, y)
            => findIndex(items, x) < findIndex(items, y)

\* C10: an accepted move of a collection with unique ids yields a
\* collection with exactly the same ids, each exactly once.
C10_MovePreservesNodes ==
  (lastMove.outcome = "moved" /\ UniqueIds(before))
  => /\ Len(items) = Len(before)
     /\ Ids(items) = Ids(before)
     /\ UniqueIds(items)

\* A folder was moved together with a child of it.
C10_Witness ==
  /\ lastMove.outcome = "moved"
  /\ DraggedBefore.type = "folder"
  /\ \E i \in 1..Len(before) : before[i].parentId = lastMove.draggedId
  /\ items # before
  /\ Len(items) = Len(before)

NodeOf(c, id) == c[findIndex(c, id)]

\* C11: after an accepted move of X onto target T in a valid collection,
\* X.parentId is T's id for position inside and T's own parentId for
\* before and after; every other node keeps its parentId, and T keeps
\* every field.
C11_MoveReparentsOnlyDragged ==
  (lastMove.outcome = "moved" /\ ValidCollection(before))
  => /\ NodeOf(items, lastMove.draggedId).parentId =
          IF lastMove.position = "inside" THEN lastMove.targetId
          ELSE NodeOf(before, lastMove.targetId).parentId
     /\ \A y \in Ids(before) \ {lastMove.draggedId} :
          NodeOf(items, y).parentId = NodeOf(before, y).parentId
     /\ NodeOf(items, lastMove.targetId) = NodeOf(before, lastMove.targetId)

\* A root folder with a child was moved inside another root folder: it
\* took that folder as parent, its child kept it, the target is as it was.
C11_Witness ==
  /\ lastMove.outcome = "moved"
  /\ lastMove.position = "inside"
  /\ DraggedBefore.parentId = Null
  /\ NodeOf(before, lastMove.targetId).type = "folder"
  /\ NodeOf(items, lastMove.draggedId).parentId = lastMove.targetId
  /\ NodeOf(items, lastMove.targetId) = NodeOf(before, lastMove.targetId)
  /\ \E y \in Ids(before) :
       /\ NodeOf(before, y).parentId = lastMove.draggedId
       /\ NodeOf(items, y).parentId = lastMove.draggedId

\* C12: after an accepted move of X inside folder T, every node that was
\* a child of T before the move precedes X in the resulting sequence.
C12_InsideAppendsAfterChildren ==
  (/\ lastMove.outcome = "moved"
   /\ ValidCollection(before)
   /\ lastMove.position = "inside"
   /\ NodeOf(before, lastMove.targetId).type = "folder")
  => \A c \in Ids(before) \ {lastMove.draggedId} :
       NodeOf(before, c).parentId = lastMove.targetId
         => findIndex(items, c) < findIndex(items, lastMove.draggedId)

\* a comes before b in c.
Precedes(c, a, b) == findIndex(c, a) < findIndex(c, b)

\* The ids handleMove takes out and splices back in, the dragged one first.
MovedIds == Ids(itemsToMoveOf(before, DraggedBefore))

\* C13, as stated: after an accepted move of X before (after) target T, X
\* is immediately before (immediately after) T, and the nodes that were
\* not moved are in the order they were in.
C13_DraggedBesideTarget ==
  (/\ lastMove.outcome = "moved"
   /\ ValidCollection(before)
   /\ lastMove.position \in {"before", "after"})
  => /\ lastMove.position = "before"
          => findIndex(items, lastMove.draggedId) + 1
               = findIndex(items, lastMove.targetId)
     /\ lastMove.position = "after"
          => findIndex(items, lastMove.draggedId)
               = findIndex(items, lastMove.targetId) + 1
     /\ \A a, b \in Ids(before) \ MovedIds :
          Precedes(before, a, b) => Precedes(items, a, b)

\* C13, amended: X and the nodes moved with it form one contiguous block
\* that starts with X; for before the block ends immediately before T, for
\* after it starts immediately after T; the nodes that were not moved are
\* in the order they were in.
C13_MovedBlockBesideTarget ==
  (/\ lastMove.outcome = "moved"
   /\ ValidCollection(before)
   /\ lastMove.position \in {"before", "after"})
  => LET px == findIndex(items, lastMove.draggedId)
         pt == findIndex(items, lastMove.targetId)
         n == Cardinality(MovedIds)
     IN /\ px + n - 1 <= Len(items)
        /\ {items[i].id : i \in px..(px + n - 1)} = MovedIds
        /\ lastMove.position = "before" => px + n = pt
        /\ lastMove.position = "after" => px = pt + 1
        /\ \A a, b \in Ids(before) \ MovedIds :
             Precedes(before, a, b) => Precedes(items, a, b)

\* A folder that came after T was moved before T together with a child:
\* the child, not the folder, is now next to T.
C13_Witness ==
  /\ lastMove.outcome = "moved"
  /\ lastMove.position = "before"
  /\ Precedes(before, lastMove.targetId, lastMove.draggedId)
  /\ Cardinality(MovedIds) = 2
  /\ findIndex(items, lastMove.draggedId) + 2 = findIndex(items, lastMove.targetId)

\* C14: a drop that asks for position inside on a file is rejected and
\* leaves the collection unchanged, so that after any drop on a valid
\* collection no node has a file as parent.
C14_InsideFileRejected ==
  (lastMove.outcome # "none" /\ ValidCollection(before))
  => /\ (/\ lastMove.position = "inside"
          /\ NodeOf(before, lastMove.targetId).type = "file")
          => lastMove.outcome = "rejected" /\ items = before
     /\ ParentsAreFolders(items)

Held(c) ==
  /\ UniqueIds(c)
  /\ \A i \in 1..Len(c) : c[i].parentId # Null => c[i].parentId \in Ids(c)
  /\ Acyclic(c)

ItemsUpdatedOf(c) == SelectSeq(sent[c], LAMBDA m : m.type = "itemsUpdated")

ErrorsOf(c) == SelectSeq(sent[c], LAMBDA m : m.type = "error")

\* b is a with nothing changed but an isOpen filled in where a had none.
AsGivenButDefaults(a, b) ==
  /\ Len(a) = Len(b)
  /\ \A i \in 1..Len(a) :
       /\ b[i] = [a[i] EXCEPT !.isOpen = b[i].isOpen]
       /\ a[i].isOpen # Undefined => b[i].isOpen = a[i].isOpen

\* What the step that ends request r's successful write emits: payload to
\* every open connection but the request's own, nothing to anyone else.
BroadcastsOnce(r, payload) ==
  \A c \in Conns :
    sent'[c] = IF sock[c] = "open" /\ c # reqs[r].conn
               THEN Append(sent[c], Msg("itemsUpdated", payload))
               ELSE sent[c]

C4_LastBroadcastIsPersisted ==
  (/\ Len(reqs) = 2
   /\ reqs[1].conn # reqs[2].conn
   /\ reqs[1].items # reqs[2].items
   /\ reqs[1].stage = "done" /\ reqs[2].stage = "done")
  => /\ findOneItems(docs) \in {reqs[1].stored, reqs[2].stored}
     /\ \A c \in Conns \ {reqs[1].conn, reqs[2].conn} :
          Len(ItemsUpdatedOf(c)) = 2
            => castItems(ItemsUpdatedOf(c)[2].items) = findOneItems(docs)

\* A collection without duplicate ids, dangling or file parents, or cycles.
TreeValid(c) == UniqueIds(c) /\ ParentsAreFolders(c) /\ Acyclic(c)

\* C5: a collection that breaks the data model (a parentId naming no node)
\* is never persisted and never broadcast.
C5_InvalidNeverPersistedNorBroadcast ==
  /\ \A d \in 1..Len(docs) : TreeValid(docs[d])
  /\ \A c \in Conns : \A i \in 1..Len(sent[c]) :
       sent[c][i].type = "itemsUpdated" => TreeValid(sent[c][i].items)

\* C6: a failed write leaves the store as it was; the request then sends
\* one error to its own connection and nothing to any other, and never
\* goes on to broadcast.
C6_FailedWriteOnlyNotifiesSender ==
  [][\A r \in 1..Len(reqs) :
       /\ (reqs[r].stage \in {"writing", "inserting"} /\ reqs'[r].stage = "failed")
            => docs' = docs /\ sent' = sent
       /\ (reqs[r].stage = "failed" /\ reqs'[r].stage = "errored")
            => /\ docs' = docs
               /\ \A c \in Conns :
                    sent'[c] = IF c = reqs[r].conn /\ sock[c] = "open"
                               THEN Append(sent[c], Msg("error", <<>>))
                               ELSE sent[c]
       /\ reqs[r].stage \in {"failed", "errored"}
            => reqs'[r].stage \in {"failed", "errored"}]_vars

\* A write over a used store has failed and been reported: the store holds
\* what it held, the sender holds the error, and another connected viewer
\* holds neither an error nor an itemsUpdated.
C6_Witness ==
  \E r \in 1..Len(reqs) : \E c \in Conns :
    /\ reqs[r].stage = "errored"
    /\ ErrorsOf(reqs[r].conn) = <<Msg("error", <<>>)>>
    /\ c # reqs[r].conn
    /\ sock[c] = "open"
    /\ handler[c] = "registered"
    /\ ErrorsOf(c) = <<>>
    /\ ItemsUpdatedOf(c) = <<>>
    /\ docs = <<castItems(PayloadB)>>
    /\ reqs[r].items # PayloadB

\* C7: at no time are two writes in progress against the store.
C7_OneWriteAtATime ==
  Cardinality({r \in 1..Len(reqs) : reqs[r].stage \in {"writing", "inserting"}}) <= 1

InitialDataOf(c) == SelectSeq(sent[c], LAMBDA m : m.type = "initialData")

\* C17: the connection callback of every connection gets to send its
\* initialData, and when it sends it the payload is the collection the
\* store holds at that moment.
C17_InitialDataIsCurrent ==
  [][\A c \in Conns :
       /\ handler[c] = "awaitFindOne"
            => handler'[c] \in {"awaitFindOne", "gotSnapshot"}
       /\ (handler[c] = "gotSnapshot" /\ handler'[c] = "registered"
             /\ sock[c] = "open")
            => sent'[c] = Append(sent[c], Msg("initialData", findOneItems(docs)))]_vars

\* Every element has an id, a title and a type that is file or folder.
WellFormed(c) ==
  \A i \in 1..Len(c) :
    /\ {"id", "title", "type"} \subseteq DOMAIN c[i]
    /\ c[i].type \in {"file", "folder"}

\* C18: a payload that is not a well-formed collection is never persisted
\* and never broadcast.
C18_MalformedNeverPersistedNorBroadcast ==
  /\ \A d \in 1..Len(docs) : WellFormed(docs[d])
  /\ \A c \in Conns : \A i \in 1..Len(sent[c]) :
       sent[c][i].type = "itemsUpdated" => WellFormed(sent[c][i].items)

\* The requests whose write the store has carried out.
Landed == {r \in 1..Len(reqs) : reqs[r].stage \in {"written", "done"}}

ValidPayloads == {PayloadA, PayloadB}

\* No write has landed but writes of C, and at least n of them have.
OnlySubmitted(C, n) ==
  /\ Cardinality(Landed) >= n
  /\ \A r \in Landed : reqs[r].items = C

\* The errors sent to c are those of its requests whose write failed.
ErrorsOnlyForFailedWrites ==
  \A c \in Conns :
    Len(ErrorsOf(c)) <= Cardinality({r \in 1..Len(reqs) :
                          reqs[r].conn = c /\ reqs[r].stage = "errored"})

Unrelated(c, f, draggedId, targetId) ==
  /\ f \notin {draggedId, targetId}
  /\ f \notin Ancestors(c, draggedId) \cup Ancestors(c, targetId)
  /\ f \notin Descendants(c, draggedId) \cup Descendants(c, targetId)

\* C20: a folder toggled locally keeps the locally chosen isOpen when the
\* viewer then receives the itemsUpdated of a peer's move of an unrelated
\* node.
C20_LocalToggleSurvivesRemoteMove ==
  [][(/\ lastMove.outcome = "toggled"
      /\ lastMove'.outcome = "received"
      /\ Unrelated(before, lastMove.draggedId,
                   lastMove'.draggedId, lastMove'.targetId))
       => NodeOf(items', lastMove.draggedId).isOpen
            = NodeOf(items, lastMove.draggedId).isOpen]_vars

\* C21: after an itemsUpdated the local collection is the incoming nodes
\* in incoming order; a node known locally as a folder and sent without
\* isOpen takes the local isOpen, every other node is as sent.
C21_ReceiveMergesExpanded ==
  lastMove.outcome = "received" =>
    LET u == sent[1][1].items
    IN /\ Len(items) = Len(u)
       /\ \A i \in 1..Len(u) :
            LET k == findIndex(before, u[i].id)
            IN IF k # 0 /\ before[k].type = "folder" /\ u[i].isOpen = Undefined
               THEN items[i] = [u[i] EXCEPT !.isOpen = before[k].isOpen]
               ELSE items[i] = u[i]

\* Received: a folder closed locally and sent without isOpen, which stays
\* closed, together with a node the viewer did not know.
C21_Witness ==
  /\ lastMove.outcome = "received"
  /\ Len(items) = 2
  /\ \E i, j \in 1..2 :
       /\ i # j
       /\ findIndex(before, items[i].id) = 0
       /\ LET k == findIndex(before, items[j].id)
          IN /\ k # 0
             /\ before[k].isOpen = "false"
             /\ sent[1][1].items[j].isOpen = Undefined
             /\ items[j].isOpen = "false"

\* This step is a drop or a creation that got as far as updateItems.
CallsUpdateItems ==
  /\ lastMove.outcome = "none"
  /\ lastMove'.outcome \in {"moved", "created", "notSaved"}

\* C22: updateItems called while the socket is down emits nothing, leaves
\* the local collection as it is and sets the error; and a collection is
\* emitted only by the updateItems call that installs it, on a socket that
\* is up, so nothing refused is sent later, on reconnection or otherwise.
C22_OfflineMutationDropped ==
  [][/\ (CallsUpdateItems /\ ~connected)
          => /\ lastMove'.outcome = "notSaved"
             /\ items' = items
             /\ outbox' = outbox
             /\ error' = CannotSave
     /\ outbox' # outbox
          => /\ CallsUpdateItems
             /\ connected
             /\ outbox' = Append(outbox, items')]_vars

\* A drop of a node of the collection was refused with the socket down.
C22_Witness ==
  /\ lastMove.outcome = "notSaved"
  /\ lastMove.draggedId \in Ids(before)
  /\ ~connected
  /\ error = CannotSave
  /\ outbox = <<>>
  /\ items = before

\* C23: a toggle by a connected viewer emits an updateItems that carries
\* the collection with the new isOpen.
C23_ToggleIsSent ==
  (lastMove.outcome = "toggled" /\ connected)
    => /\ outbox # <<>>
       /\ outbox[Len(outbox)] = items

\* C24: the step that closes a connection changes neither the store nor
\* any request; and a request whose connection has closed goes on as any
\* other: its write leaves its collection in the store, and the step that
\* ends it sends itemsUpdated to every connection still open.
C24_CloseRollsNothingBack ==
  [][/\ \A c \in Conns :
          (sock[c] = "open" /\ sock'[c] = "closed")
            => (docs' = docs /\ reqs' = reqs)
     /\ \A r \in 1..Len(reqs) :
          sock[reqs[r].conn] = "closed" =>
            /\ (reqs[r].stage # "written" /\ reqs'[r].stage = "written")
                 => /\ \E d \in 1..Len(docs') : docs'[d] = reqs'[r].stored
                    /\ AsGivenButDefaults(reqs[r].items, reqs'[r].stored)
            /\ (reqs[r].stage = "written" /\ reqs'[r].stage = "done")
                 => BroadcastsOnce(r, reqs[r].items)]_vars

\* The connection of a request has closed, the request's collection is in
\* the store, and the other connection, open, is about to be sent it.
C24_Witness ==
  \E r \in 1..Len(reqs) : \E c \in Conns :
    /\ reqs[r].stage = "written"
    /\ sock[reqs[r].conn] = "closed"
    /\ docs = <<reqs[r].stored>>
    /\ c # reqs[r].conn
    /\ sock[c] = "open"
    /\ handler[c] = "registered"

\* C25: a storage failure while serving one connection stays with that
\* connection: no other connection's callback is ended by it and no
\* request is abandoned.
C25_FailureConfined ==
  /\ \A c \in Conns : handler[c] # "exited"
  /\ \A r \in 1..Len(reqs) : reqs[r].stage # "aborted"

\* The tree of a collection: its nodes in order, without isOpen.
TreeOf(c) ==
  [i \in 1..Len(c) |->
     [id |-> c[i].id, title |-> c[i].title, parentId |-> c[i].parentId,
      type |-> c[i].type]]

\* Nothing is under way: no event in flight to the server, no request
\* unfinished, and every viewer with an open socket has had its load
\* answered and every event sent to it delivered.
Quiescent ==
  /\ \A c \in Conns : toServer[c] = <<>>
  /\ \A r \in 1..Len(reqs) : reqs[r].stage \in {"done", "errored"}
  /\ \A c \in Conns : sock[c] = "open" => (loaded[c] /\ seen[c] = Len(sent[c]))

\* C26: once nothing is under way, the tree of every connected viewer is
\* the tree of the persisted collection.
C26_ViewersConverge ==
  Quiescent =>
    \A c \in Conns :
      sock[c] = "open" => TreeOf(local[c]) = TreeOf(findOneItems(docs))

\* C27: a connection is sent no itemsUpdated before its initialData.
C27_NoBroadcastBeforeInitialData ==
  \A c \in Conns : \A i \in 1..Len(sent[c]) :
    sent[c][i].type = "itemsUpdated"
      => \E j \in 1..(i - 1) : sent[c][j].type = "initialData"

\* C28: toggleFolder(id) gives the folder with that id the opposite of the
\* expanded value it had (the one its row showed) and leaves every other
\* node, and the order, as they were; for the id of a file or of no node
\* it changes nothing.
C28_ToggleFlipsFolderOnly ==
  lastMove.outcome = "toggled" =>
    /\ Len(items) = Len(before)
    /\ \A i \in 1..Len(before) :
         IF before[i].id = lastMove.draggedId /\ before[i].type = "folder"
         THEN /\ items[i] = [before[i] EXCEPT !.isOpen = items[i].isOpen]
              /\ items[i].isOpen \in {"true", "false"}
              /\ items[i].isOpen # shownOpen(before[i].isOpen)
         ELSE items[i] = before[i]

\* The node a creation of lastMove's type and name is to add.
CreatedNode ==
  [id |-> lastMove.draggedId, type |-> lastMove.type,
   title |-> trim(lastMove.name), parentId |-> Null,
   isOpen |-> IF lastMove.type = "folder" THEN "true" ELSE Undefined]

Created == lastMove.outcome \in {"created", "notSaved", "blank"}

\* C29 (as stated): a creation with a non-blank name appends the new node
\* and leaves every existing node as it was; with a blank name it changes
\* and sends nothing.
C29_CreateAppendsOne ==
  Created =>
    IF trim(lastMove.name) # <<>>
    THEN items = Append(before, CreatedNode)
    ELSE items = before /\ outbox = <<>>

\* C29 (amended): on a connected socket a creation with a non-blank name
\* appends the new node, keeps the existing nodes in order, each as it was
\* but for isOpen true on a folder that had none, and emits the result;
\* with the socket down, or with a blank name, it changes and sends
\* nothing.
C29_CreateAppendsOneWhenConnected ==
  Created =>
    IF trim(lastMove.name) # <<>> /\ connected
    THEN /\ Len(items) = Len(before) + 1
         /\ items[Len(items)] = CreatedNode
         /\ \A i \in 1..Len(before) :
              items[i] = IF before[i].type = "folder" /\ before[i].isOpen = Undefined
                         THEN [before[i] EXCEPT !.isOpen = "true"]
                         ELSE before[i]
         /\ outbox = <<items>>
    ELSE items = before /\ outbox = <<>>

\* A folder named " a" was created after a file and a folder the viewer
\* held, the socket being up.
C29_Witness ==
  /\ lastMove.outcome = "created"
  /\ lastMove.type = "folder"
  /\ lastMove.name = <<" ", "a">>
  /\ Len(before) = 2
  /\ before[1].type = "file"
  /\ before[2].type = "folder"
  /\ Len(items) = 3
  /\ items[3].title = <<"a">>

\* C30: the store holds at most one document.
C30_AtMostOneDocument == Len(docs) <= 1

\* A write of a connection other than c is pending.
WritePendingBeside(c) ==
  \E r \in 1..Len(reqs) :
    reqs[r].conn # c /\ reqs[r].stage \in {"writing", "inserting"}

\* C31: while another connection's write is pending, the initialData sent
\* to a connecting viewer and the answer to a viewer's read carry the
\* collection the store holds then.
C31_ReadsCarryCommittedWhileWritePending ==
  [][\A c \in Conns :
       WritePendingBeside(c) =>
         /\ (handler[c] = "gotSnapshot" /\ handler'[c] = "registered"
               /\ sock[c] = "open")
              => sent'[c] = Append(sent[c], Msg("initialData", findOneItems(docs)))
         /\ (~loaded[c] /\ loaded'[c])
              => local'[c] = findOneItems(docs)]_vars

\* C32: an updateItems event that arrives from a connection whose socket
\* is open starts a handler, to end in a write and a broadcast or in an
\* error notice: none arrives and is dropped.
C32_NoRequestDropped ==
  [][\A c \in Conns :
       (/\ sock[c] = "open"
        /\ sock'[c] = "open"
        /\ toServer[c] # <<>>
        /\ toServer'[c] = Tail(toServer[c]))
         => /\ Len(reqs') = Len(reqs) + 1
            /\ reqs'[Len(reqs')].conn = c
            /\ reqs'[Len(reqs')].items = Head(toServer[c])]_vars

\* C33: the collection updateItems emits has a boolean isOpen on every
\* folder, true where the array given had none, has every file node as
\* given, and is the collection installed as the viewer's items.
C33_EmittedIsNormalisedAndInstalled ==
  lastMove.outcome = "set" =>
    LET given == lastMove.given
        emitted == outbox[Len(outbox)]
    IN /\ outbox # <<>>
       /\ emitted = items
       /\ Len(emitted) = Len(given)
       /\ \A i \in 1..Len(given) :
            IF given[i].type = "folder"
            THEN /\ emitted[i].isOpen \in {"true", "false"}
                 /\ emitted[i] = [given[i] EXCEPT
                                    !.isOpen = IF @ = Undefined THEN "true" ELSE @]
            ELSE emitted[i] = given[i]

\* Emitted: an array of a folder given without isOpen and a file.
C33_Witness ==
  /\ lastMove.outcome = "set"
  /\ Len(lastMove.given) = 2
  /\ lastMove.given[1].type = "folder"
  /\ lastMove.given[1].isOpen = Undefined
  /\ lastMove.given[2].type = "file"
  /\ outbox[1][1].isOpen = "true"
  /\ items # before

\* C34: connectedClients is never negative and is the number of
\* connections that have connected and not yet closed.
C34_CounterMatchesOpenConnections ==
  /\ connectedClients >= 0
  /\ connectedClients = Cardinality({c \in Conns : sock[c] = "open"})

====
